---- MODULE Spec2Model ----
(***************************************************************************)
(* Task board page: src/app/(main)/dashboard/task/[TaskId]/page.tsx.       *)
(* Page fetches the parent task of the route parameter TaskId and renders  *)
(* DashboardContent, which fetches a sub-task sequence into its task       *)
(* store, partitions it into four lanes (tasksByStatus) and reassigns a    *)
(* task's status when a dragged task is dropped on a lane (moveTask).      *)
(***************************************************************************)
EXTENDS Integers, Sequences, FiniteSets, TLC

\* ---------------------------------------------------------------- bounds
\* Longest sub-task sequence the fetch supplies to the board.
MaxTasks == 2
\* Longest store moveTask and tasksByStatus are applied to on their own.
MaxStore == 3
\* Number of times the route is entered.
MaxMounts == 2

\* ------------------------------------------------------------- constants
Null == "null"

ITEM_TYPE == "TASK"

TaskStatus == {"TODO", "IN_PROGRESS", "COMPLETED", "BACKLOG"}

\* The columns with the title passed as the status prop.
ColumnsTitleAsStatus ==
  << [title |-> "TODO",        status |-> "TODO",        lane |-> "todo"],
     [title |-> "IN PROGRESS", status |-> "IN PROGRESS", lane |-> "inProgress"],
     [title |-> "COMPLETED",   status |-> "COMPLETED",   lane |-> "completed"],
     [title |-> "BACKLOG",     status |-> "BACKLOG",     lane |-> "backlog"] >>

\* The four <TaskColumn> elements DashboardContent renders, in render order:
\* the title and status props and the tasksByStatus field passed as tasks.
Columns ==
  << [title |-> "TODO",        status |-> "TODO",        lane |-> "todo"],
     [title |-> "IN PROGRESS", status |-> "IN_PROGRESS", lane |-> "inProgress"],
     [title |-> "COMPLETED",   status |-> "COMPLETED",   lane |-> "completed"],
     [title |-> "BACKLOG",     status |-> "BACKLOG",     lane |-> "backlog"] >>

ColumnIds == DOMAIN Columns
NoColumn == 0

TasksErrorMessage == "An error occurred while fetching tasks."
DetailsErrorMessage == "Failed to fetch task details."

\* The identifier DashboardContent fetches, whatever the route parameter is.
HardcodedTaskId == "cm59m7yt30000iujtnlr77mne"

\* ------------------------------------------------ the fetch collaborator
\* Identifiers of the sub-task records the collaborator can supply.
IdPool == << "a", "b", "c", "d", "e" >>
\* An identifier no task of any store has.
ForeignId == "zz"

TitleOf(id) == "title-" \o id

\* A Task record: the fields moveTask and tasksByStatus touch (id, status)
\* and one field they must leave alone (title).
Task(id, status) == [id |-> id, title |-> TitleOf(id), status |-> status]

NoTask == [id |-> Null, title |-> Null, status |-> Null]

RECURSIVE StoresOfLen(_)
\* The task sequences of length n whose i-th task has the i-th identifier of
\* the pool and any status of the taxonomy.
StoresOfLen(n) ==
  IF n = 0 THEN { << >> }
  ELSE { Append(q, Task(IdPool[n], s)) : q \in StoresOfLen(n - 1), s \in TaskStatus }

\* The task sequences of the data model, up to the names of the identifiers:
\* at most MaxStore tasks with pairwise different identifiers, each with a
\* status of the taxonomy.
AllStores == UNION { StoresOfLen(n) : n \in 0..MaxStore }

\* The sub-task sequences getTaskById(HardcodedTaskId) supplies in the board
\* model: at most MaxTasks records, each with one of the two statuses of
\* FetchedStatuses (drops reach the other statuses).
FetchedStatuses == { "TODO", "BACKLOG" }
FetchedSubTasks ==
  { ts \in AllStores :
      /\ Len(ts) <= MaxTasks
      /\ \A i \in DOMAIN ts : ts[i].status \in FetchedStatuses }

\* Outcomes of getTaskById in fetchTasks: a record with a sub-task sequence,
\* a record without one (subTasks undefined), no record (null), a rejection.
SubFetchResults ==
  { [kind |-> "ok", subTasks |-> ts] : ts \in FetchedSubTasks }
    \cup { [kind |-> k, subTasks |-> << >>] : k \in {"absent", "null", "reject"} }

\* Route parameters and the parent record getTaskById supplies for each.
RouteIds == { "p1", "p2" }
ParentTask(id) == [id |-> id, title |-> TitleOf(id), status |-> "TODO"]
ParentFetchResults == { "ok", "reject" }

\* ------------------------------------------------------------------ state
VARIABLES
  mounted,        \* a Page instance is mounted
  crashed,        \* a render threw and React removed the tree
  gen,            \* number of Page instances mounted so far
  TaskId,         \* Page: the route parameter
  task,           \* Page: useState<TaskMain | null>
  pageError,      \* Page: useState<string | null>
  parentPending,  \* in-flight fetchTaskDetails calls: <<instance, id>>,
                  \* instance Discarded once a later instance has mounted
  tasks,          \* DashboardContent: useState<Task[]>
  tasksUndefined, \* tasks holds undefined instead of an array
  loading,        \* DashboardContent: useState<boolean>
  error,          \* DashboardContent: useState<string | null>
  lanes,          \* DashboardContent: the memoized tasksByStatus
  subPending,     \* in-flight fetchTasks calls: the instance that issued it
  subOutcome,     \* kind of the fetchTasks result this instance handled
  dragItem,       \* react-dnd: the item of the drag in progress, or NoTask
  hover,          \* react-dnd: the column whose isOver is true, or NoColumn
  moveCalls,      \* onMoveTask calls made since the last drag start
  dndEvent        \* the last drag-and-drop event: none, begin, hover, drop, end

pageVars == << mounted, crashed, gen, TaskId, task, pageError, parentPending >>
boardVars == << tasks, tasksUndefined, loading, error, lanes, subPending, subOutcome >>
dndVars == << dragItem, hover, moveCalls, dndEvent >>
vars == << pageVars, boardVars, dndVars >>

\* --------------------------------------------------------- pure functions
RECURSIVE filterReversed(_, _)
\* filter that collects the matches with unshift instead of push.
filterReversed(ts, status) ==
  IF ts = << >> THEN << >>
  ELSE IF Head(ts).status = status
       THEN filterReversed(Tail(ts), status) \o << Head(ts) >>
       ELSE filterReversed(Tail(ts), status)

RECURSIVE filter(_, _)
\* tasks.filter((task) => task.status === status)
filter(ts, status) ==
  IF ts = << >> THEN << >>
  ELSE IF Head(ts).status = status
       THEN << Head(ts) >> \o filter(Tail(ts), status)
       ELSE filter(Tail(ts), status)

\* The useMemo callback.
tasksByStatus(ts) ==
  [ todo       |-> filter(ts, "TODO"),
    inProgress |-> filter(ts, "IN_PROGRESS"),
    completed  |-> filter(ts, "COMPLETED"),
    backlog    |-> filter(ts, "BACKLOG") ]

\* moveOne without the spread: { id: t.id, status: newStatus }.
moveOneNoSpread(t, item, newStatus) ==
  IF t.id = item.id THEN [id |-> t.id, title |-> Null, status |-> newStatus] ELSE t

\* t.id === task.id ? { ...t, status: newStatus } : t
moveOne(t, item, newStatus) ==
  IF t.id = item.id THEN [t EXCEPT !.status = newStatus] ELSE t

RECURSIVE mapReversed(_, _, _)
\* map that builds its result with unshift instead of push.
mapReversed(prevTasks, item, newStatus) ==
  IF prevTasks = << >> THEN << >>
  ELSE mapReversed(Tail(prevTasks), item, newStatus)
         \o << moveOne(Head(prevTasks), item, newStatus) >>

RECURSIVE map(_, _, _)
\* prevTasks.map((t) => ...)
map(prevTasks, item, newStatus) ==
  IF prevTasks = << >> THEN << >>
  ELSE << moveOne(Head(prevTasks), item, newStatus) >>
         \o map(Tail(prevTasks), item, newStatus)

HasId(ts, id) == \E i \in DOMAIN ts : ts[i].id = id

\* An updater that inserts the dragged task when the store has none with
\* its identifier.
reassignUpsert(prevTasks, item, newStatus) ==
  IF HasId(prevTasks, item.id)
  THEN map(prevTasks, item, newStatus)
  ELSE Append(prevTasks, [item EXCEPT !.status = newStatus])

\* An updater that removes the moved task and appends it again.
reassignMoveToEnd(prevTasks, item, newStatus) ==
  SelectSeq(prevTasks, LAMBDA t : t.id # item.id)
    \o SelectSeq(map(prevTasks, item, newStatus), LAMBDA t : t.id = item.id)

\* The updater moveTask hands to setTasks.
reassign(prevTasks, item, newStatus) == map(prevTasks, item, newStatus)

\* fetchTasks with setLoading(false) at the end of the try block instead of
\* in a finally block.
fetchTasksNoFinally(r, st) ==
  IF r.kind = "ok"
  THEN [st EXCEPT !.tasks = r.subTasks, !.tasksUndefined = FALSE, !.loading = FALSE]
  ELSE IF r.kind = "absent"
  THEN [st EXCEPT !.tasks = << >>, !.tasksUndefined = TRUE, !.loading = FALSE]
  ELSE [st EXCEPT !.error = TasksErrorMessage]

\* The hook state fetchTasks leaves for a getTaskById result r, from the
\* hook state st: try (setTasks), catch (setError), finally (setLoading).
fetchTasks(r, st) ==
  LET tried ==
        IF r.kind = "ok"
        THEN [st EXCEPT !.tasks = r.subTasks, !.tasksUndefined = FALSE]
        ELSE IF r.kind = "absent"
        THEN [st EXCEPT !.tasks = << >>, !.tasksUndefined = TRUE]
        ELSE [st EXCEPT !.error = TasksErrorMessage]
  IN  [tried EXCEPT !.loading = FALSE]

\* The effect with a missing dependency array: the render that follows the
\* completion of call g runs fetchTasks again.
pendingAfterFetchTasksNoDeps(pending, g) == pending

\* useEffect(() => { fetchTasks() }, []): the in-flight fetchTasks calls once
\* call g has completed; the renders it causes do not run the effect again.
pendingAfterFetchTasks(pending, g) == pending \ { g }

\* The memo with an empty dependency array: computed on mount only.
useMemoNoDeps(prevLanes, prevTasks, nextTasks) == prevLanes

\* useMemo(() => ..., [tasks]): the lanes a render yields when the tasks
\* state went from prevTasks to nextTasks.
useMemo(prevLanes, prevTasks, nextTasks) ==
  IF nextTasks = prevTasks THEN prevLanes ELSE tasksByStatus(nextTasks)

\* fetchTaskDetails that clears the error when a fetch succeeds.
fetchTaskDetailsClearsError(r, id, st) ==
  IF r = "ok"
  THEN [st EXCEPT !.task = ParentTask(id), !.error = Null]
  ELSE [st EXCEPT !.error = DetailsErrorMessage]

\* The Page state fetchTaskDetails leaves for a getTaskById(id) result r,
\* from the Page state st: try (setTask), catch (setError).
fetchTaskDetails(r, id, st) ==
  IF r = "ok"
  THEN [st EXCEPT !.task = ParentTask(id)]
  ELSE [st EXCEPT !.error = DetailsErrorMessage]

\* What DashboardContent returns for a state of its hooks: the useMemo
\* callback runs before the loading and error checks.
DashboardRender(undef, ld, err) ==
  IF undef THEN "throw"
  ELSE IF ld THEN "Loading..."
  ELSE IF err # Null THEN "error"
  ELSE "board"

\* Page without its error check.
PageRenderNoErrorCheck(perr) == "card"

\* What Page returns: the error text alone, or the parent card around
\* DashboardContent.
PageRender(perr) == IF perr # Null THEN "error" ELSE "card"

BoardMounted == mounted /\ PageRender(pageError) = "card"
LanesRendered ==
  BoardMounted /\ DashboardRender(tasksUndefined, loading, error) = "board"

\* ------------------------------------------------------------------- Init
FreshBoard ==
  /\ tasks = << >>
  /\ tasksUndefined = FALSE
  /\ loading = TRUE
  /\ error = Null
  /\ lanes = tasksByStatus(<< >>)
  /\ subOutcome = "none"

IdleDnd ==
  /\ dragItem = NoTask
  /\ hover = NoColumn
  /\ moveCalls = << >>
  /\ dndEvent = "none"

\* The route has not been entered yet: no Page instance, no fetch in flight.
Init ==
  /\ mounted = FALSE
  /\ crashed = FALSE
  /\ gen = 0
  /\ TaskId \in RouteIds
  /\ task = NoTask
  /\ pageError = Null
  /\ parentPending = { }
  /\ FreshBoard
  /\ subPending = { }
  /\ IdleDnd

\* A drop handler that calls nothing.
dropNoCall(item, status) == << >>

\* TaskColumn's drop handler, (item) => onMoveTask(item, status): the
\* onMoveTask calls it makes, in order.
drop(item, status) == << [task |-> item, newStatus |-> status] >>

RECURSIVE applyCalls(_, _)
\* The store after the queued setTasks updaters of the calls have run.
applyCalls(ts, calls) ==
  IF calls = << >> THEN ts
  ELSE applyCalls(reassign(ts, Head(calls).task, Head(calls).newStatus), Tail(calls))

\* ---------------------------------------------------------------- actions

\* useDrag on a rendered task: the drag carries that task.
DragStart(i) ==
  /\ LanesRendered
  /\ dragItem = NoTask
  /\ i \in DOMAIN tasks
  /\ dragItem' = tasks[i]
  /\ hover' = NoColumn
  /\ moveCalls' = << >>
  /\ dndEvent' = "begin"
  /\ UNCHANGED << pageVars, boardVars >>

\* A column with a hover handler that moves the carried task, as sortable
\* lists do.
HoverMovesTask(c) ==
  /\ LanesRendered
  /\ dragItem # NoTask
  /\ c \in ColumnIds \cup { NoColumn }
  /\ c # hover
  /\ hover' = c
  /\ dndEvent' = "hover"
  /\ tasks' = IF c = NoColumn THEN tasks
              ELSE applyCalls(tasks, drop(dragItem, Columns[c].status))
  /\ lanes' = tasksByStatus(tasks')
  /\ UNCHANGED << pageVars, tasksUndefined, loading, error, subPending, subOutcome,
                  dragItem, moveCalls >>

\* useDrop collect: the pointer enters column c, or leaves every column.
Hover(c) ==
  /\ LanesRendered
  /\ dragItem # NoTask
  /\ c \in ColumnIds \cup { NoColumn }
  /\ c # hover
  /\ hover' = c
  /\ dndEvent' = "hover"
  /\ UNCHANGED << pageVars, boardVars, dragItem, moveCalls >>

\* The pointer is released over column hover: react-dnd calls the column's
\* drop handler with the carried item, then the drag ends.
Drop ==
  /\ LanesRendered
  /\ dragItem # NoTask
  /\ hover \in ColumnIds
  /\ LET calls == drop(dragItem, Columns[hover].status)
     IN  /\ tasks' = applyCalls(tasks, calls)
         /\ moveCalls' = moveCalls \o calls
  /\ lanes' = useMemo(lanes, tasks, tasks')
  /\ dragItem' = NoTask
  /\ hover' = NoColumn
  /\ dndEvent' = "drop"
  /\ UNCHANGED << pageVars, tasksUndefined, loading, error, subPending, subOutcome >>

\* The drag is cancelled or released outside every column.
DragEnd ==
  /\ dragItem # NoTask
  /\ dragItem' = NoTask
  /\ hover' = NoColumn
  /\ dndEvent' = "end"
  /\ UNCHANGED << pageVars, boardVars, moveCalls >>

\* A store kept outside the component: it survives unmounting.
ResetBoardKeepsTasks ==
  /\ tasks' = tasks
  /\ tasksUndefined' = FALSE
  /\ loading' = TRUE
  /\ error' = Null
  /\ lanes' = lanes
  /\ subOutcome' = "none"

\* A DashboardContent instance just mounted, which is also what is left of
\* one that unmounted: its hook state is gone.
ResetBoard ==
  /\ tasks' = << >>
  /\ tasksUndefined' = FALSE
  /\ loading' = TRUE
  /\ error' = Null
  /\ lanes' = tasksByStatus(<< >>)
  /\ subOutcome' = "none"

ResetDnd ==
  /\ dragItem' = NoTask
  /\ hover' = NoColumn
  /\ moveCalls' = << >>
  /\ dndEvent' = "none"

\* The tag of the calls issued by Page instances that no longer exist: their
\* completions call the setters of an unmounted component, whichever it was.
Discarded == 0

\* ... nor does it matter which identifier a discarded call asked for.
DiscardedDetails(pending) == { << Discarded, Null >> : p \in pending }
DiscardedTasks(pending) == { Discarded : g \in pending }

\* The route is entered again: a new Page instance mounts, both effects run.
Mount(id) ==
  /\ ~mounted
  /\ gen < MaxMounts
  /\ mounted' = TRUE
  /\ crashed' = FALSE
  /\ gen' = gen + 1
  /\ TaskId' = id
  /\ task' = NoTask
  /\ pageError' = Null
  /\ parentPending' = DiscardedDetails(parentPending) \cup { << gen', id >> }
  /\ ResetBoard
  /\ subPending' = DiscardedTasks(subPending) \cup { gen' }
  /\ ResetDnd

\* The route is left: the Page instance and its state are discarded, the
\* fetches it issued stay in flight.
Unmount ==
  /\ mounted
  /\ mounted' = FALSE
  /\ task' = NoTask
  /\ pageError' = Null
  /\ ResetBoard
  /\ ResetDnd
  /\ parentPending' = DiscardedDetails(parentPending)
  /\ subPending' = DiscardedTasks(subPending)
  /\ UNCHANGED << crashed, gen, TaskId >>

\* The fetchTasks effect with dependency [TaskId]: it runs again when the
\* route parameter changes.
ChangeTaskIdRefetchesTasks(id) ==
  /\ mounted
  /\ id # TaskId
  /\ << gen, id >> \notin parentPending
  /\ TaskId' = id
  /\ parentPending' = parentPending \cup { << gen, id >> }
  /\ subPending' = subPending \cup { gen }
  /\ UNCHANGED << mounted, crashed, gen, task, pageError, tasks, tasksUndefined,
                  loading, error, lanes, subOutcome, dndVars >>

\* The route parameter changes under the mounted Page: the effect with
\* dependency [TaskId] runs fetchTaskDetails again.
ChangeTaskId(id) ==
  /\ mounted
  /\ id # TaskId
  /\ << gen, id >> \notin parentPending
  /\ TaskId' = id
  /\ parentPending' = parentPending \cup { << gen, id >> }
  /\ UNCHANGED << mounted, crashed, gen, task, pageError, boardVars, dndVars >>

\* fetchTaskDetails of instance g for identifier id completes with result r.
FetchTaskDetailsDone(g, id, r) ==
  /\ << g, id >> \in parentPending
  \* the result of a call whose Page is gone is not looked at: one result
  \* stands for all of them
  /\ (mounted /\ g = gen) \/ r = "reject"
  /\ parentPending' = parentPending \ { << g, id >> }
  /\ UNCHANGED << mounted, crashed, gen, TaskId, subPending >>
  /\ IF mounted /\ g = gen
     THEN LET st == fetchTaskDetails(r, id, [task |-> task, error |-> pageError])
          IN  /\ task' = st.task
              /\ pageError' = st.error
              /\ UNCHANGED << dragItem, moveCalls, dndEvent >>
              \* the render after a failure returns the error text alone:
              \* DashboardContent and its columns unmount
              /\ IF BoardMounted /\ PageRender(st.error) # "card"
                 THEN ResetBoard /\ hover' = NoColumn
                 ELSE UNCHANGED << tasks, tasksUndefined, loading, error,
                                   lanes, subOutcome, hover >>
     ELSE UNCHANGED << task, pageError, tasks, tasksUndefined, loading, error,
                       lanes, subOutcome, dndVars >>

\* fetchTasks of instance g completes with result r: try, catch, finally,
\* and the render the state changes cause.
FetchTasksDone(g, r) ==
  /\ g \in subPending
  \* the result of a call whose board is gone is not looked at: one result
  \* stands for all of them
  /\ (BoardMounted /\ g = gen) \/ r.kind = "reject"
  /\ subPending' = pendingAfterFetchTasks(subPending, g)
  /\ UNCHANGED << gen, TaskId, task, pageError, parentPending, dndVars >>
  /\ IF BoardMounted /\ g = gen
     THEN /\ subOutcome' = r.kind
          /\ LET st == fetchTasks(r, [tasks |-> tasks, tasksUndefined |-> tasksUndefined,
                                      loading |-> loading, error |-> error])
             IN  /\ tasks' = st.tasks
                 /\ tasksUndefined' = st.tasksUndefined
                 /\ loading' = st.loading
                 /\ error' = st.error
          /\ IF DashboardRender(tasksUndefined', loading', error') = "throw"
             THEN mounted' = FALSE /\ crashed' = TRUE /\ lanes' = lanes
             ELSE /\ UNCHANGED << mounted, crashed >>
                  /\ lanes' = useMemo(lanes, tasks, tasks')
     ELSE UNCHANGED << mounted, crashed, tasks, tasksUndefined, loading, error,
                       lanes, subOutcome >>

Next ==
  \/ \E id \in RouteIds : Mount(id)
  \/ Unmount
  \/ \E id \in RouteIds : ChangeTaskId(id)
  \/ \E g \in 0..MaxMounts, id \in RouteIds \cup { Null }, r \in ParentFetchResults :
       FetchTaskDetailsDone(g, id, r)
  \/ \E g \in 0..MaxMounts, r \in SubFetchResults : FetchTasksDone(g, r)
  \/ \E i \in 1..MaxTasks : DragStart(i)
  \/ \E c \in ColumnIds \cup { NoColumn } : Hover(c)
  \/ Drop
  \/ DragEnd

Spec == Init /\ [][Next]_vars

\* ------------------------------------------- moveTask on arbitrary inputs
\* moveTask: setTasks(updater), then the re-render recomputes the memo.
moveTask(item, newStatus) ==
  /\ tasks' = reassign(tasks, item, newStatus)
  /\ lanes' = useMemo(lanes, tasks, tasks')
  /\ UNCHANGED << tasksUndefined, loading, error, subPending, subOutcome >>

\* The board of a mounted Page after fetchTasks stored any task sequence of
\* the data model, with nothing in flight and no drag in progress.
InitReassign ==
  /\ mounted = TRUE
  /\ crashed = FALSE
  /\ gen = 1
  /\ TaskId \in RouteIds
  /\ task = ParentTask(TaskId)
  /\ pageError = Null
  /\ parentPending = { }
  /\ tasks \in AllStores
  /\ tasksUndefined = FALSE
  /\ loading = FALSE
  /\ error = Null
  /\ lanes = tasksByStatus(tasks)
  /\ subPending = { }
  /\ subOutcome = "ok"
  /\ IdleDnd

\* The tasks moveTask can be called with: a task of the store, or a task
\* whose identifier no task of the store has.
MoveArguments == { tasks[i] : i \in DOMAIN tasks } \cup { Task(ForeignId, "TODO") }

\* One call moveTask(item, newStatus), recorded in moveCalls.
CallMoveTask(item, newStatus) ==
  /\ moveTask(item, newStatus)
  /\ moveCalls' = << [task |-> item, newStatus |-> newStatus] >>
  /\ UNCHANGED << pageVars, dragItem, hover, dndEvent >>

NextReassign ==
  \E item \in MoveArguments, newStatus \in TaskStatus : CallMoveTask(item, newStatus)

SpecReassign == InitReassign /\ [][NextReassign]_vars

\* ------------------------------------------- the fetch that does complete
\* getTaskById in fetchTasks of the mounted instance settles.
CompleteFetchTasks == \E r \in SubFetchResults : FetchTasksDone(gen, r)

\* Spec, with every fetchTasks call of a mounted instance settling at last.
SpecFair == Spec /\ WF_vars(CompleteFetchTasks)

\* ------------------------------------------------------------- properties
Range(q) == { q[i] : i \in DOMAIN q }
IdsOf(ts) == [i \in DOMAIN ts |-> ts[i].id]
EmptyLanes == [todo |-> << >>, inProgress |-> << >>, completed |-> << >>, backlog |-> << >>]
LastCall == moveCalls[Len(moveCalls)]

\* C1: for every store and every status S of the taxonomy, the lane
\* tasksByStatus computes for S holds exactly the tasks of the store whose
\* status is S, in their order in the store; the four lanes are pairwise
\* disjoint and their union is the set of tasks of the store.
C1_PartitionExactStableDisjoint ==
  LET P == tasksByStatus(tasks)
      lane(c) == P[Columns[c].lane]
      matching(c) == { i \in DOMAIN tasks : tasks[i].status = Columns[c].status }
      pos(t) == CHOOSE i \in DOMAIN tasks : tasks[i] = t
  IN  /\ \A c \in ColumnIds :
           /\ Range(lane(c)) = { tasks[i] : i \in matching(c) }
           /\ Len(lane(c)) = Cardinality(matching(c))
           /\ \A i, j \in DOMAIN lane(c) :
                i < j => pos(lane(c)[i]) < pos(lane(c)[j])
      /\ \A c, d \in ColumnIds :
           c # d => Range(lane(c)) \cap Range(lane(d)) = { }
      /\ UNION { Range(lane(c)) : c \in ColumnIds } = Range(tasks)

\* The scenario store [a TODO, b BACKLOG, c TODO] and its lanes.
C1_Witness ==
  /\ tasks = << Task("a", "TODO"), Task("b", "BACKLOG"), Task("c", "TODO") >>
  /\ tasksByStatus(tasks).todo = << Task("a", "TODO"), Task("c", "TODO") >>
  /\ tasksByStatus(tasks).backlog = << Task("b", "BACKLOG") >>
  /\ tasksByStatus(tasks).inProgress = << >>
  /\ tasksByStatus(tasks).completed = << >>

\* C2: a moveTask call whose task is in the store leaves a store of the same
\* length in which that task has the new status and its other fields as
\* before, every other task is the same at the same position, and exactly
\* one position holds the identifier.
C2_MoveChangesOnlyTargetStatus ==
  [][ (moveCalls' # << >> /\ HasId(tasks, moveCalls'[1].task.id)) =>
        LET c == moveCalls'[1]
        IN  /\ Len(tasks') = Len(tasks)
            /\ Cardinality({ i \in DOMAIN tasks : tasks[i].id = c.task.id }) = 1
            /\ \A i \in DOMAIN tasks :
                 IF tasks[i].id = c.task.id
                 THEN /\ tasks'[i].status = c.newStatus
                      /\ tasks'[i] = [tasks[i] EXCEPT !.status = c.newStatus]
                 ELSE tasks'[i] = tasks[i] ]_vars

\* The scenario reassign(store, "b", "COMPLETED") has been applied.
C2_Witness ==
  /\ moveCalls = << [task |-> Task("b", "BACKLOG"), newStatus |-> "COMPLETED"] >>
  /\ tasks = << Task("a", "TODO"), Task("b", "COMPLETED"), Task("c", "TODO") >>

C4_AbsentSubTasksLeaveEmptyStore ==
  subOutcome = "absent" =>
    /\ mounted
    /\ ~crashed
    /\ ~tasksUndefined
    /\ tasks = << >>
    /\ error = Null
    /\ lanes = EmptyLanes

\* C5: a moveTask call whose task no task of the store has the identifier of
\* leaves the store, error and loading as they were.
C5_MoveAbsentIsNoOp ==
  [][ (moveCalls' # << >> /\ ~HasId(tasks, moveCalls'[1].task.id)) =>
        /\ tasks' = tasks
        /\ tasksUndefined' = tasksUndefined
        /\ error' = error
        /\ loading' = loading ]_vars

\* moveTask has been called on a store of three tasks with a foreign task.
C5_Witness ==
  /\ moveCalls # << >>
  /\ moveCalls[1].task.id = ForeignId
  /\ Len(tasks) = 3
  /\ ~HasId(tasks, ForeignId)
  /\ error = Null
  /\ loading = FALSE

\* C6: the store a moveTask call left is a fixed point of the same call:
\* applying it a second time gives the store the first application gave.
C6_MoveIdempotent ==
  moveCalls # << >> =>
    reassign(tasks, LastCall.task, LastCall.newStatus) = tasks

\* A call that changed the status of a task of a three-task store.
C6_Witness ==
  /\ moveCalls # << >>
  /\ Len(tasks) = 3
  /\ HasId(tasks, moveCalls[1].task.id)
  /\ moveCalls[1].task.status # moveCalls[1].newStatus
  /\ tasks[1].id = moveCalls[1].task.id
  /\ tasks[1].status = moveCalls[1].newStatus

\* C7: a step between two states in which the lanes of the same board
\* instance are rendered leaves the sequence of identifiers of the store,
\* and so its length, unchanged.
C7_DropsKeepIdentifierSequence ==
  [][ (LanesRendered /\ LanesRendered' /\ gen' = gen) =>
        IdsOf(tasks') = IdsOf(tasks) ]_vars

\* A drop has changed the status of the first of two tasks.
C7_Witness ==
  /\ LanesRendered
  /\ dndEvent = "drop"
  /\ Len(tasks) = 2
  /\ IdsOf(tasks) = << "a", "b" >>
  /\ moveCalls[1].task.id = "a"
  /\ moveCalls[1].task.status # tasks[1].status

FailedKinds == { "reject", "null" }

\* C8: after fetchTasks handled a failure the board's error is the message,
\* the store is the empty sequence and loading is false; the step that
\* handles the failure leaves the Page's error unset.
C8_SubFetchFailureScopedToBoard ==
  /\ [](subOutcome \in FailedKinds =>
          /\ error = TasksErrorMessage
          /\ tasks = << >>
          /\ ~tasksUndefined
          /\ lanes = EmptyLanes
          /\ loading = FALSE)
  /\ [][ (subOutcome' \in FailedKinds /\ subOutcome \notin FailedKinds) =>
           (pageError' = pageError /\ pageError' = Null /\ ~crashed') ]_vars

\* The getTaskById call of fetchTasks was rejected in a mounted board.
C8_Witness ==
  /\ BoardMounted
  /\ subOutcome = "reject"
  /\ error = TasksErrorMessage
  /\ loading = FALSE

\* C9: while the Page's error is set the Page renders the error text alone:
\* no parent card, no lanes, and the store and the lanes stay empty, also
\* when fetchTasks completes afterwards.
C9_ParentFailureSuppressesBoard ==
  (mounted /\ pageError # Null) =>
    /\ PageRender(pageError) = "error"
    /\ ~BoardMounted
    /\ ~LanesRendered
    /\ tasks = << >>
    /\ lanes = EmptyLanes

\* The parent fetch failed and the sub-task fetch of the same instance
\* completed after the board was removed.
C9_Witness ==
  /\ mounted
  /\ pageError = DetailsErrorMessage
  /\ gen \notin subPending
  /\ subOutcome = "none"

\* C10: the step that drops the carried task on a column hands exactly one
\* call, of the carried task and the column's status, to onMoveTask and ends
\* the drag; a step that ends the drag otherwise hands over no call and
\* leaves the store as it was.
C10_DropHandsOverOnceThenIdle ==
  [][ /\ (dndEvent' = "drop" /\ dndEvent # "drop") =>
          /\ dragItem # NoTask
          /\ hover \in ColumnIds
          /\ moveCalls' = << [task |-> dragItem, newStatus |-> Columns[hover].status] >>
          /\ dragItem' = NoTask
      /\ (dndEvent' = "end" /\ dndEvent # "end") =>
          /\ dragItem # NoTask
          /\ dragItem' = NoTask
          /\ moveCalls' = << >>
          /\ tasks' = tasks ]_vars

\* A drop on the lane the task was already in: the call was handed over,
\* the store did not change, the drag session is idle.
C10_Witness ==
  /\ dndEvent = "drop"
  /\ dragItem = NoTask
  /\ Len(moveCalls) = 1
  /\ moveCalls[1].task.status = moveCalls[1].newStatus
  /\ moveCalls[1].task \in Range(tasks)

\* ------------------------------------------------ steps, seen from outside
\* The step releases the carried task over a column.
DropStep == dragItem # NoTask /\ dndEvent' = "drop"

\* The step stays within one DashboardContent instance.
SameBoard == BoardMounted /\ BoardMounted' /\ gen' = gen

\* The step stays within one Page instance.
SamePage == mounted /\ mounted' /\ gen' = gen

\* The step completes a fetchTaskDetails call of the mounted Page for id.
DetailsCompleted(id) ==
  SamePage /\ << gen, id >> \in parentPending /\ << gen, id >> \notin parentPending'

\* C11: a drop issues no fetch; a new instance starts with an empty store and
\* empty lanes; and a store becomes non-empty, other than by a drop, only
\* from the empty store of a loading board, by the completion of that
\* instance's own fetchTasks call, with a fetched sub-task sequence.
C11_MovesLastOneMount ==
  [][ /\ DropStep => (parentPending' = parentPending /\ subPending' = subPending)
      /\ gen' # gen =>
           (tasks' = << >> /\ lanes' = EmptyLanes /\ loading' /\ moveCalls' = << >>)
      /\ (tasks' # tasks /\ tasks' # << >> /\ ~DropStep) =>
           /\ gen' = gen
           /\ loading
           /\ tasks = << >>
           /\ gen \in subPending
           /\ gen \notin subPending'
           /\ tasks' \in FetchedSubTasks ]_vars

\* The second instance shows a fetched store, before any drag in it.
C11_Witness ==
  /\ gen = 2
  /\ LanesRendered
  /\ subOutcome = "ok"
  /\ Len(tasks) = 2
  /\ dndEvent = "none"

\* C12: once an instance has handled its fetchTasks result no fetchTasks call
\* of it is in flight; a drop happens with loading false and that call
\* completed; the result is handled, and the store changed other than by a
\* drop, only while loading and before any drag event of the instance.
C12_InitializedOnceBeforeMoves ==
  /\ []((mounted /\ subOutcome # "none") => gen \notin subPending)
  /\ [][ /\ DropStep => (~loading /\ gen \notin subPending /\ subOutcome = "ok")
         /\ (SameBoard /\ subOutcome' # subOutcome) =>
              (subOutcome = "none" /\ loading /\ tasks = << >> /\ dndEvent = "none")
         /\ (SameBoard /\ tasks' # tasks /\ ~DropStep) =>
              (loading /\ dndEvent = "none" /\ moveCalls = << >>) ]_vars

\* A fetched store that a drop has changed, with no fetchTasks call left.
C12_Witness ==
  /\ LanesRendered
  /\ subOutcome = "ok"
  /\ gen \notin subPending
  /\ dndEvent = "drop"
  /\ moveCalls[1].task.status # moveCalls[1].newStatus
  /\ moveCalls[1].task \notin Range(tasks)

\* C13: whenever the lanes are rendered the memoized lanes are the partition
\* of the current store.
C13_MemoNeverStale ==
  LanesRendered => lanes = tasksByStatus(tasks)

\* The lanes after initialization and a drop that moved the second task to
\* COMPLETED.
C13_Witness ==
  /\ LanesRendered
  /\ dndEvent = "drop"
  /\ Len(tasks) = 2
  /\ tasks[2].status = "COMPLETED"
  /\ lanes.completed = << tasks[2] >>

\* C14: the completion of a fetchTaskDetails call for an identifier that is
\* no longer the route parameter leaves the Page's task and error as they
\* were.
C14_StaleResponseIgnored ==
  [][ \A id \in RouteIds :
        (DetailsCompleted(id) /\ id # TaskId) =>
          (task' = task /\ pageError' = pageError) ]_vars

\* C15: the steps that start a drag, change the hovered column or end the
\* drag without a drop leave the store and the lanes as they were; within
\* one board instance a step that changes the drag session and the store is
\* a drop.
C15_OnlyDropChangesStore ==
  [][ /\ (dragItem = NoTask /\ dragItem' # NoTask) => (tasks' = tasks /\ lanes' = lanes)
      /\ (SameBoard /\ hover' # hover /\ dndEvent' = "hover") =>
           (tasks' = tasks /\ lanes' = lanes)
      /\ (dragItem # NoTask /\ dndEvent' = "end") => (tasks' = tasks /\ lanes' = lanes)
      /\ (SameBoard /\ dndVars' # dndVars /\ tasks' # tasks) => DropStep ]_vars

\* The carried task hovers over a column of another status and is still in
\* the store with its status.
C15_Witness ==
  /\ dragItem # NoTask
  /\ dndEvent = "hover"
  /\ hover \in ColumnIds
  /\ Columns[hover].status # dragItem.status
  /\ dragItem \in Range(tasks)

\* C16: with the fetchTasks call of a mounted board settling at last, a
\* loading board stops loading (or is removed); the completion of the call
\* clears loading whatever the result; and loading, once false, stays false
\* in that board instance.
C16_LoadingEndsAndStaysEnded ==
  /\ (BoardMounted /\ loading) ~> ~(BoardMounted /\ loading)
  /\ [][ /\ (SameBoard /\ gen \in subPending /\ gen \notin subPending') => ~loading'
         /\ (SameBoard /\ ~loading) => ~loading' ]_vars

\* The fetch supplied an empty sequence: not loading, no error, empty lanes.
C16_Witness ==
  /\ LanesRendered
  /\ ~loading
  /\ subOutcome = "ok"
  /\ tasks = << >>
  /\ gen \notin subPending

\* C17: within one Page instance the Page's error, once set, stays as it is
\* and the board stays unmounted.
C17_PageErrorSticky ==
  [][ (SamePage /\ pageError # Null) =>
        (pageError' = pageError /\ ~BoardMounted') ]_vars

\* The error is set while the Page holds the record of the current route
\* parameter and every fetchTaskDetails call of the instance has completed.
C17_Witness ==
  /\ mounted
  /\ pageError = DetailsErrorMessage
  /\ task = ParentTask(TaskId)
  /\ \A id \in RouteIds : << gen, id >> \notin parentPending

\* C18 as stated: within one Page instance a change of the route parameter
\* and the completion of a fetchTaskDetails call leave the in-flight
\* fetchTasks calls, the store and the lanes as they were.
C18_IdChangeNeverTouchesStore ==
  [][ (SamePage /\ (TaskId' # TaskId \/ \E id \in RouteIds : DetailsCompleted(id))) =>
        (subPending' = subPending /\ tasks' = tasks /\ lanes' = lanes) ]_vars

\* C18 amended: a change of the route parameter issues one fetchTaskDetails
\* call for the new identifier and no fetchTasks call, and it and every
\* fetchTaskDetails completion that leaves the Page's error unset leave the
\* store, the lanes and the recorded moves as they were.
C18_IdChangeAndSuccessKeepStore ==
  [][ /\ (SamePage /\ TaskId' # TaskId) =>
           /\ parentPending' = parentPending \cup { << gen, TaskId' >> }
           /\ subPending' = subPending
           /\ UNCHANGED << tasks, tasksUndefined, loading, error, lanes, moveCalls >>
      /\ (SamePage /\ pageError' = Null /\ \E id \in RouteIds : DetailsCompleted(id)) =>
           /\ subPending' = subPending
           /\ UNCHANGED << tasks, tasksUndefined, loading, error, lanes, moveCalls >> ]_vars

\* A moved store under a Page whose task is the record of an identifier the
\* route parameter has changed away from.
C18_Witness ==
  /\ LanesRendered
  /\ dndEvent = "drop"
  /\ moveCalls[1].task.status # moveCalls[1].newStatus
  /\ task # NoTask
  /\ task.id # TaskId

====
